---- MODULE Spec2Model ----
(***************************************************************************)
(* Model of gmail_unattended_script.py: one run of main().                 *)
(*                                                                         *)
(* The run is sequential: authenticate, fetch the unread messages page by  *)
(* page, classify each one through the language-model service, clear the   *)
(* UNREAD label of the non-important ones, build the markdown digest,      *)
(* convert it to HTML and send it.  Every external call (token file,       *)
(* OAuth, Gmail list/get/modify/send, OpenAI) is an input whose outcome is *)
(* chosen nondeterministically.                                            *)
(*                                                                         *)
(* Message ids are 1..MaxMsgs, handed out in list order: the list request  *)
(* returns every matching message once.                                    *)
(***************************************************************************)
EXTENDS Integers, Sequences, FiniteSets, TLC

\* ---------------------------------------------------------------- bounds
MaxMsgs == 2
MaxPages == 2

Ids == 1..MaxMsgs

\* ------------------------------------------------------------ vocabulary
Categories == {"newsletter", "notification", "important"}

\* JSON values of the function-call arguments that are not enum strings.
Absent == "<absent>"
Null == "<null>"
OtherCategory == "spam"

NoSubject == "(No Subject)"

NoCallSummary == "Unable to parse email with function calling. Defaulting to 'important'."
ErrorSummary == "Error occurred. Defaulting to category 'important'."

ExplanatorySummaries == {NoCallSummary, ErrorSummary}

\* Subject header of a fetched message: Absent when no Subject header.
SubjectHeaders == {Absent, "subj"}

\* What the chat-completion call of classify_and_summarize_email can yield.
ObjectResponses ==
    [kind : {"object"},
     category : {Absent, OtherCategory} \cup Categories,
     summary : {Absent, "", "text", Null}]

FailureResponses ==
    [kind : {"api_error", "no_function_call", "invalid_json", "non_object"},
     category : {Absent}, summary : {Absent}]

Responses == ObjectResponses \cup FailureResponses

\* Token file states seen by get_gmail_service.
TokenStates == {"missing", "valid", "expired_refreshable", "invalid"}

\* What the markdown-to-HTML completion can yield (lines of the content).
ConvertResponses ==
    {<<"api_error">>,
     <<"no_content">>,
     <<"<fence html>", "<html>", "<fence>">>,
     <<"<html>">>,
     <<"<h1>", "<p>", "</p>">>}

VARIABLES
    pc,                \* position of main()
    token,             \* state of the token file
    creds,             \* creds local of get_gmail_service
    abortedAt,         \* stage whose exception nothing caught
    emails_data,       \* accumulator of get_unread_emails_past_24h
    page,              \* ids of the current page not yet retrieved
    page_token,        \* nextPageToken of the current page present
    nextId,            \* next message id the provider lists
    fetchFailed,       \* a list or get request raised
    unread_emails,     \* what the fetcher returned to main
    classified_emails, \* classified_emails of main
    lastResponse,      \* response of the latest classification request
    markIdx,           \* loop index of mark_non_important_as_read
    modifyLog,         \* modify requests issued, in order
    unread,            \* UNREAD label at the provider, per id
    summary_md,        \* lines of the digest
    summary_html,      \* lines handed to the sender
    convertResponse,   \* response of the conversion request
    ops                \* number of requests issued, per kind

vars == <<pc, token, creds, abortedAt, emails_data, page, page_token, nextId,
          fetchFailed, unread_emails, classified_emails, lastResponse,
          markIdx, modifyLog, unread, summary_md, summary_html,
          convertResponse, ops>>

OpKinds == {"list", "get", "classify", "modify", "convert", "send"}

Count(kind) == [ops EXCEPT ![kind] = @ + 1]

\* -------------------------------------------------------- authentication
\* No try/except in get_gmail_service or main: a raising step ends the run.
AfterAuthStepSwallow(ok, next) == next

AfterAuthStep(ok, next) == IF ok THEN next ELSE "aborted"

NeedsNewCreds(c) == c = "none" \/ c # "valid"

CanRefresh(c) == c = "expired_refreshable"

Init ==
    /\ pc = "auth_load"
    /\ token \in TokenStates
    /\ creds = "none"
    /\ abortedAt = "none"
    /\ emails_data = <<>>
    /\ page = <<>>
    /\ page_token = FALSE
    /\ nextId = 1
    /\ fetchFailed = FALSE
    /\ unread_emails = <<>>
    /\ classified_emails = <<>>
    /\ lastResponse = [kind |-> "none", category |-> Absent, summary |-> Absent]
    /\ markIdx = 1
    /\ modifyLog = <<>>
    /\ unread = [i \in Ids |-> TRUE]
    /\ summary_md = <<>>
    /\ summary_html = <<>>
    /\ convertResponse = <<>>
    /\ ops = [k \in OpKinds |-> 0]

AuthNext(ok, next) ==
    /\ pc' = AfterAuthStep(ok, next)
    /\ abortedAt' = IF ok THEN abortedAt ELSE "auth"

\* lines 80-85: load the cached credential if the token file exists.
AuthLoad ==
    /\ pc = "auth_load"
    /\ \E ok \in BOOLEAN :
        /\ token = "missing" => ok
        /\ creds' = IF ok /\ token # "missing" THEN token ELSE "none"
        /\ AuthNext(ok, IF NeedsNewCreds(creds')
                          THEN (IF CanRefresh(creds') THEN "auth_refresh"
                                                       ELSE "auth_flow")
                          ELSE "auth_build")
    /\ UNCHANGED <<token, emails_data, page, page_token, nextId, fetchFailed,
                   unread_emails, classified_emails, lastResponse, markIdx,
                   modifyLog, unread, summary_md, summary_html, ops,
                   convertResponse>>

\* lines 86-88: creds.refresh(Request()).
AuthRefresh ==
    /\ pc = "auth_refresh"
    /\ \E ok \in BOOLEAN :
        /\ creds' = IF ok THEN "valid" ELSE creds
        /\ AuthNext(ok, "auth_save")
    /\ UNCHANGED <<token, emails_data, page, page_token, nextId, fetchFailed,
                   unread_emails, classified_emails, lastResponse, markIdx,
                   modifyLog, unread, summary_md, summary_html, ops,
                   convertResponse>>

\* lines 89-92: the interactive consent flow.
AuthFlow ==
    /\ pc = "auth_flow"
    /\ \E ok \in BOOLEAN :
        /\ creds' = IF ok THEN "valid" ELSE creds
        /\ AuthNext(ok, "auth_save")
    /\ UNCHANGED <<token, emails_data, page, page_token, nextId, fetchFailed,
                   unread_emails, classified_emails, lastResponse, markIdx,
                   modifyLog, unread, summary_md, summary_html, ops,
                   convertResponse>>

\* lines 93-95: persist the credential.
AuthSave ==
    /\ pc = "auth_save"
    /\ \E ok \in BOOLEAN :
        /\ token' = IF ok THEN creds ELSE token
        /\ AuthNext(ok, "auth_build")
    /\ UNCHANGED <<creds, emails_data, page, page_token, nextId, fetchFailed,
                   unread_emails, classified_emails, lastResponse, markIdx,
                   modifyLog, unread, summary_md, summary_html, ops,
                   convertResponse>>

\* lines 97-100: build the service.
AuthBuild ==
    /\ pc = "auth_build"
    /\ \E ok \in BOOLEAN : AuthNext(ok, "list")
    /\ UNCHANGED <<token, creds, emails_data, page, page_token, nextId,
                   fetchFailed, unread_emails, classified_emails, lastResponse,
                   markIdx, modifyLog, unread, summary_md, summary_html, ops,
                   convertResponse>>

\* --------------------------------------------------------------- fetcher
\* lines 164-166: any exception inside the loop discards the accumulator.
FetchFailResultPartial(partial) == partial

FetchFailResult(partial) == <<>>

\* lines 142-151: subject or "(No Subject)".
SubjectOf(header) == IF header = Absent THEN NoSubject ELSE header

FetchFail ==
    /\ fetchFailed' = TRUE
    /\ unread_emails' = FetchFailResult(emails_data)
    /\ pc' = "main_check"

\* lines 121-132: one list request for the next page.
ListPage ==
    /\ pc = "list"
    /\ ops' = Count("list")
    /\ \E ok \in BOOLEAN :
        IF ok
        THEN \E n \in 0..(MaxMsgs - nextId + 1), more \in BOOLEAN :
                /\ more => ops["list"] + 1 < MaxPages
                /\ page' = [j \in 1..n |-> nextId + j - 1]
                /\ nextId' = nextId + n
                /\ page_token' = more
                /\ pc' = "get"
                /\ UNCHANGED <<fetchFailed, unread_emails>>
        ELSE /\ FetchFail
             /\ UNCHANGED <<page, nextId, page_token>>
    /\ UNCHANGED <<token, creds, abortedAt, emails_data, classified_emails,
                   lastResponse, markIdx, modifyLog, unread, summary_md,
                   summary_html,
                   convertResponse>>

\* lines 134-154: one get request for the next message of the page.
GetMessage ==
    /\ pc = "get"
    /\ page # <<>>
    /\ ops' = Count("get")
    /\ \E ok \in BOOLEAN :
        IF ok
        THEN \E header \in SubjectHeaders :
                /\ emails_data' = Append(emails_data,
                                         [id |-> Head(page),
                                          subject |-> SubjectOf(header),
                                          snippet |-> "snip"])
                /\ page' = Tail(page)
                /\ pc' = "get"
                /\ UNCHANGED <<fetchFailed, unread_emails>>
        ELSE /\ FetchFail
             /\ UNCHANGED <<emails_data, page>>
    /\ UNCHANGED <<token, creds, abortedAt, page_token, nextId,
                   classified_emails, lastResponse, markIdx, modifyLog, unread,
                   summary_md, summary_html,
                   convertResponse>>

\* lines 156-162: follow nextPageToken, or return the accumulator.
EndPage ==
    /\ pc = "get"
    /\ page = <<>>
    /\ IF page_token
       THEN /\ pc' = "list"
            /\ UNCHANGED unread_emails
       ELSE /\ unread_emails' = emails_data
            /\ pc' = "main_check"
    /\ UNCHANGED <<token, creds, abortedAt, emails_data, page, page_token,
                   nextId, fetchFailed, classified_emails, lastResponse,
                   markIdx, modifyLog, unread, summary_md, summary_html, ops,
                   convertResponse>>

\* ------------------------------------------------------------------ main
\* line 401: if not unread_emails.
NoUnreadNever(emails) == FALSE

NoUnread(emails) == Len(emails) = 0

\* lines 408, 275: a for loop over an empty list runs no iteration.
StageAfterCheck(emails) == IF Len(emails) = 0 THEN "digest" ELSE "classify"

\* lines 399-406.
MainCheck ==
    /\ pc = "main_check"
    /\ pc' = IF NoUnread(unread_emails) THEN "done"
                                        ELSE StageAfterCheck(unread_emails)
    /\ UNCHANGED <<token, creds, abortedAt, emails_data, page, page_token,
                   nextId, fetchFailed, unread_emails, classified_emails,
                   lastResponse, markIdx, modifyLog, unread, summary_md,
                   summary_html, ops,
                   convertResponse>>

\* ------------------------------------------------------------ classifier
\* lines 231-264.  json.loads raises on invalid JSON and .get raises on a
\* JSON value that is not an object; both land in the except branch.
classify_and_summarize_email(r) ==
    CASE r.kind = "no_function_call" ->
            [category |-> "important", summary |-> NoCallSummary]
      [] r.kind = "object" ->
            [category |-> IF r.category = Absent THEN "important"
                                                 ELSE r.category,
             summary |-> IF r.summary = Absent THEN "" ELSE r.summary]
      [] OTHER ->
            [category |-> "important", summary |-> ErrorSummary]

\* lines 408-416: one iteration of the classification loop.
ClassifyStep ==
    /\ pc = "classify"
    /\ Len(classified_emails) < Len(unread_emails)
    /\ \E r \in Responses :
        LET email == unread_emails[Len(classified_emails) + 1]
            result == classify_and_summarize_email(r)
        IN  /\ classified_emails' =
                  Append(classified_emails,
                         [id |-> email.id, subject |-> email.subject,
                          snippet |-> email.snippet,
                          category |-> result.category,
                          summary |-> result.summary])
            /\ lastResponse' = r
    /\ ops' = Count("classify")
    /\ pc' = IF Len(classified_emails') = Len(unread_emails)
             THEN "mark" ELSE "classify"
    /\ UNCHANGED <<token, creds, abortedAt, emails_data, page, page_token,
                   nextId, fetchFailed, unread_emails, markIdx, modifyLog,
                   unread, summary_md, summary_html,
                   convertResponse>>

\* --------------------------------------------------------------- mutator
\* line 278: if category != "important".
ShouldMarkReadAll(category) == TRUE

ShouldMarkRead(category) == category # "important"

\* line 283: body = {"removeLabelIds": ["UNREAD"]}, applied by the provider
\* when the request succeeds.
ModifyKeepsLabel(labels, id) == labels

Modify(labels, id) == [labels EXCEPT ![id] = FALSE]

\* lines 275-289: the except branch logs and the for loop goes on.
NextMarkIndexBreak(ok, i, n) == IF ok THEN i + 1 ELSE n + 1

NextMarkIndex(ok, i, n) == i + 1

\* lines 275-289: one iteration of the marking loop.
MarkStep ==
    /\ pc = "mark"
    /\ markIdx <= Len(classified_emails)
    /\ LET email == classified_emails[markIdx]
           n == Len(classified_emails)
       IN  IF ShouldMarkRead(email.category)
           THEN \E ok \in BOOLEAN :
                   /\ modifyLog' = Append(modifyLog,
                                          [id |-> email.id, ok |-> ok])
                   /\ unread' = IF ok THEN Modify(unread, email.id)
                                      ELSE unread
                   /\ ops' = Count("modify")
                   /\ markIdx' = NextMarkIndex(ok, markIdx, n)
           ELSE /\ markIdx' = markIdx + 1
                /\ UNCHANGED <<modifyLog, unread, ops>>
    /\ pc' = IF markIdx' > Len(classified_emails) THEN "digest" ELSE "mark"
    /\ UNCHANGED <<token, creds, abortedAt, emails_data, page, page_token,
                   nextId, fetchFailed, unread_emails, classified_emails,
                   lastResponse, summary_md, summary_html,
                   convertResponse>>

\* -------------------------------------------------------------- reporter
Line(kind, n, text, id) == [kind |-> kind, n |-> n, text |-> text, id |-> id]

\* lines 310-314: the three list comprehensions.
Group(emails, cat) == SelectSeq(emails, LAMBDA e : e.category = cat)

\* lines 322-325: numbered entry, summary, empty line, for each email.
\* The id field of a line records which message the line was rendered from.
Entries(g) ==
    [j \in 1..(3 * Len(g)) |->
        LET i == (j + 2) \div 3
            k == (j - 1) % 3
        IN  IF k = 0 THEN Line("entry", i, g[i].subject, g[i].id)
            ELSE IF k = 1 THEN Line("summary", 0, g[i].summary, g[i].id)
            ELSE Line("blank", 0, "", 0)]

\* lines 320-321: a header only when the group is not empty.
Section(header, g) ==
    IF g = <<>> THEN <<>> ELSE <<Line("header", 0, header, 0)>> \o Entries(g)

\* lines 316-341: the list of lines, before the join.
generate_executive_summary(emails) ==
    <<Line("title", 0, "Executive Summary", 0)>>
    \o Section("Important Emails", Group(emails, "important"))
    \o Section("Notifications", Group(emails, "notification"))
    \o Section("Newsletters", Group(emails, "newsletter"))
    \o <<Line("end", 0, "End of Summary", 0)>>

\* line 342: str.join raises TypeError on an item that is not a string.
JoinRaises(lines) == \E j \in 1..Len(lines) : lines[j].text = Null

\* lines 422, 302-344: build the digest; an exception is not caught by main.
Digest ==
    /\ pc = "digest"
    /\ LET lines == generate_executive_summary(classified_emails)
       IN  IF JoinRaises(lines)
           THEN /\ pc' = "aborted"
                /\ abortedAt' = "digest"
                /\ UNCHANGED summary_md
           ELSE /\ summary_md' = lines
                /\ pc' = "convert"
                /\ UNCHANGED abortedAt
    /\ UNCHANGED <<token, creds, emails_data, page, page_token, nextId,
                   fetchFailed, unread_emails, classified_emails, lastResponse,
                   markIdx, modifyLog, unread, summary_html, ops,
                   convertResponse>>

ConvertError == <<"<p>Error converting Markdown to HTML</p>">>

\* lines 355-367: content.strip() raises when the content is None; the
\* first and the last line of the content are dropped.
convert_md_to_html(r) ==
    IF r \in {<<"api_error">>, <<"no_content">>}
    THEN ConvertError
    ELSE SubSeq(r, 2, Len(r) - 1)

\* line 425.
Convert ==
    /\ pc = "convert"
    /\ \E r \in ConvertResponses :
        /\ convertResponse' = r
        /\ summary_html' = convert_md_to_html(r)
    /\ ops' = Count("convert")
    /\ pc' = "send"
    /\ UNCHANGED <<token, creds, abortedAt, emails_data, page, page_token,
                   nextId, fetchFailed, unread_emails, classified_emails,
                   lastResponse, markIdx, modifyLog, unread, summary_md>>

\* lines 428-435, 373-388: the send request; its failure is logged only.
Send ==
    /\ pc = "send"
    /\ ops' = Count("send")
    /\ pc' = "done"
    /\ UNCHANGED <<token, creds, abortedAt, emails_data, page, page_token,
                   nextId, fetchFailed, unread_emails, classified_emails,
                   lastResponse, markIdx, modifyLog, unread, summary_md,
                   summary_html,
                   convertResponse>>

Next ==
    \/ AuthLoad
    \/ AuthRefresh
    \/ AuthFlow
    \/ AuthSave
    \/ AuthBuild
    \/ ListPage
    \/ GetMessage
    \/ EndPage
    \/ MainCheck
    \/ ClassifyStep
    \/ MarkStep
    \/ Digest
    \/ Convert
    \/ Send

Spec == Init /\ [][Next]_vars

TypeOK ==
    /\ pc \in {"auth_load", "auth_refresh", "auth_flow", "auth_save",
               "auth_build", "list", "get", "main_check", "classify", "mark",
               "digest", "convert", "send", "done", "aborted"}
    /\ markIdx \in 1..(MaxMsgs + 1)
    /\ nextId \in 1..(MaxMsgs + 1)
    /\ \A k \in OpKinds : ops[k] \in 0..(MaxMsgs + MaxPages)

\* ---------------------------------------------------------------- claims
RunEnded == pc \in {"done", "aborted"}

Classified == 1..Len(classified_emails)

NonImportant == {i \in Classified : classified_emails[i].category # "important"}

ModifiesOf(id) == {j \in 1..Len(modifyLog) : modifyLog[j].id = id}

NoneOf(kinds) == \A k \in kinds : ops[k] = 0

\* C1: the category attached to every fetched message is one of newsletter,
\* notification, important, whatever the language-model service returned.
C1_CategoryInEnum ==
    \A i \in Classified : classified_emails[i].category \in Categories

\* C2 (as stated): when a run that fetched at least one message ends, every
\* fetched message whose category is not important is no longer unread,
\* whatever the outcome of the modify requests.
C2_NonImportantRead ==
    (RunEnded /\ Len(unread_emails) > 0) =>
        /\ Len(classified_emails) = Len(unread_emails)
        /\ \A i \in NonImportant : ~unread[classified_emails[i].id]

\* C2 (amended): when a run that fetched at least one message ends, exactly
\* one modify request has been issued for every fetched message whose
\* category is not important, and the message is no longer unread if that
\* request succeeded.
C2_NonImportantReadWhenModifyOk ==
    (RunEnded /\ Len(unread_emails) > 0) =>
        /\ Len(classified_emails) = Len(unread_emails)
        /\ \A i \in NonImportant :
            LET id == classified_emails[i].id
            IN  /\ Cardinality(ModifiesOf(id)) = 1
                /\ \A j \in ModifiesOf(id) : modifyLog[j].ok => ~unread[id]

C2_Witness ==
    /\ pc = "done"
    /\ \E j, k \in 1..Len(modifyLog) :
        /\ modifyLog[j].ok /\ ~unread[modifyLog[j].id]
        /\ ~modifyLog[k].ok /\ unread[modifyLog[k].id]

HeaderFor(category) ==
    CASE category = "important" -> "Important Emails"
      [] category = "notification" -> "Notifications"
      [] category = "newsletter" -> "Newsletters"
      [] OTHER -> "<no header>"

HeaderRank(text) ==
    CASE text = "Important Emails" -> 1
      [] text = "Notifications" -> 2
      [] OTHER -> 3

EntriesOf(md, id) ==
    {j \in 1..Len(md) : md[j].kind = "entry" /\ md[j].id = id}

HeadersBefore(md, j) == {h \in 1..(j - 1) : md[h].kind = "header"}

\* The header line an entry stands under: the last header before it.
HeaderAbove(md, j) ==
    IF HeadersBefore(md, j) = {} THEN "<no header>"
    ELSE md[CHOOSE h \in HeadersBefore(md, j) :
                \A g \in HeadersBefore(md, j) : g <= h].text

\* C3: the digest contains every classified message exactly once, under the
\* header matching its category, the headers standing in the order Important
\* Emails, Notifications, Newsletters.
C3_DigestComplete ==
    summary_md # <<>> =>
        /\ \A i \in Classified :
            LET id == classified_emails[i].id
            IN  /\ Cardinality(EntriesOf(summary_md, id)) = 1
                /\ \A j \in EntriesOf(summary_md, id) :
                    HeaderAbove(summary_md, j) =
                        HeaderFor(classified_emails[i].category)
        /\ \A g, h \in 1..Len(summary_md) :
            (g < h /\ summary_md[g].kind = "header"
                   /\ summary_md[h].kind = "header") =>
                HeaderRank(summary_md[g].text) < HeaderRank(summary_md[h].text)

FetchReturned ==
    pc \notin {"auth_load", "auth_refresh", "auth_flow", "auth_save",
               "auth_build", "list", "get"} /\ abortedAt # "auth"

\* C4: when the fetcher returns zero unread messages the run ends without any
\* classification, modify, conversion or send request.
C4_NoOpsWhenEmpty ==
    (FetchReturned /\ unread_emails = <<>>) =>
        /\ pc \in {"main_check", "done"}
        /\ NoneOf({"classify", "modify", "convert", "send"})
        /\ summary_md = <<>>

C4_Witness ==
    /\ pc = "done"
    /\ ~fetchFailed
    /\ unread_emails = <<>>
    /\ ops["list"] >= 1

Malformed(r) ==
    \/ r.kind \in {"api_error", "no_function_call", "invalid_json",
                   "non_object"}
    \/ r.kind = "object" /\ (r.category = Absent \/ r.summary = Absent)

\* C5: for every malformed or missing classification response the classifier
\* returns category important together with a non-empty explanatory summary.
C5_MalformedYieldsImportant ==
    (Len(classified_emails) > 0 /\ Malformed(lastResponse)) =>
        LET last == classified_emails[Len(classified_emails)]
        IN  /\ last.category = "important"
            /\ last.summary # ""
            /\ last.summary \in ExplanatorySummaries

FetchedIds == {unread_emails[i].id : i \in 1..Len(unread_emails)}

\* C6: no modify request is issued for an important message; the unread flag
\* of every important message is left as it was, and the only messages the
\* run modifies are fetched messages categorized as not important.
C6_ImportantNeverModified ==
    /\ \A i \in Classified :
        classified_emails[i].category = "important" =>
            /\ ModifiesOf(classified_emails[i].id) = {}
            /\ unread[classified_emails[i].id]
    /\ \A j \in 1..Len(modifyLog) :
        /\ modifyLog[j].id \in FetchedIds
        /\ \E i \in NonImportant : classified_emails[i].id = modifyLog[j].id
    /\ \A id \in Ids : ~unread[id] => ModifiesOf(id) # {}

C6_Witness ==
    /\ pc = "done"
    /\ \E i \in Classified : classified_emails[i].category = "important"
    /\ \E j \in 1..Len(modifyLog) : modifyLog[j].ok

\* C7: once an authentication step has raised, the run is aborted and no
\* list, get, classification, modify, conversion or send request is issued.
C7_AuthFailureAborts ==
    abortedAt = "auth" => (pc = "aborted" /\ NoneOf(OpKinds))

C7_Witness ==
    /\ pc = "aborted"
    /\ abortedAt = "auth"
    /\ token = "expired_refreshable"

\* C8: once a list or get request has failed, the fetcher has returned an
\* empty collection without raising, whatever was retrieved before, and the
\* run ends with no classification, modify, conversion or send request.
C8_FetchFailureReturnsEmpty ==
    fetchFailed =>
        /\ unread_emails = <<>>
        /\ abortedAt = "none"
        /\ pc \in {"main_check", "done"}
        /\ NoneOf({"classify", "modify", "convert", "send"})

C8_Witness ==
    /\ pc = "done"
    /\ fetchFailed
    /\ Len(emails_data) >= 1
    /\ ops["list"] >= 2

\* Ids of the non-important messages among the first n classified ones, in
\* list order.
NonImportantIds(n) ==
    LET sel == SelectSeq(SubSeq(classified_emails, 1, n),
                         LAMBDA e : e.category # "important")
    IN  [j \in 1..Len(sel) |-> sel[j].id]

ModifiedIds == [j \in 1..Len(modifyLog) |-> modifyLog[j].id]

MarkStarted ==
    pc \in {"mark", "digest", "convert", "send", "done"}
        \/ (pc = "aborted" /\ abortedAt = "digest")

ConvertFailed == convertResponse \in {<<"api_error">>, <<"no_content">>}

\* C10: when a run that fetched at least one message ends, exactly one send
\* request has been issued, after all classification and modify requests;
\* when the conversion failed the content sent is the error message.
C10_ExactlyOneSend ==
    /\ (RunEnded /\ Len(unread_emails) > 0) => ops["send"] = 1
    /\ ops["send"] > 0 =>
          /\ ops["classify"] = Len(unread_emails)
          /\ ModifiedIds = NonImportantIds(Len(classified_emails))
          /\ ConvertFailed => summary_html = ConvertError

====
